---- MODULE Spec2Model ----
(***************************************************************************)
(* Neural style transfer: the optimisation run of train() in               *)
(* src/neural_style_transfer.py, as a state machine.                       *)
(*                                                                         *)
(* Numbers.  Pixel values are float32 in the program; here they are        *)
(* integers in thousandths of an intensity unit (103.939 is 103939), with  *)
(* the finite range -MaxFloat..MaxFloat and one extra value NaN standing   *)
(* for every non-finite float (Inf, -Inf, NaN).  Costs are integers in     *)
(* units of 1/CostScale.                                                   *)
(*                                                                         *)
(* Images.  An image is spatially uniform: a shape <<height, width>> and   *)
(* the BGR value of its pixels.                                            *)
(*                                                                         *)
(* Library code (VGG19, autodiff, Adam) is not part of the repository; it  *)
(* is represented by fixed deterministic stand-ins that keep what the      *)
(* repository's code relies on: activations are non-negative, their        *)
(* spatial size halves at each pooling stage, non-finite inputs give       *)
(* non-finite outputs, and one optimizer step moves each value by the      *)
(* learning rate against the sign of its gradient.                         *)
(***************************************************************************)
EXTENDS Integers, Sequences, FiniteSets, TLC

VARIABLES
    Iterations,                  \* parameter of train
    alpha,                       \* parameter of train: content weight
    beta,                        \* parameter of train: style weight
    lr,                          \* parameter of train: learning rate
    content_image_preprocessed,  \* line 204
    style_image_preprocessed,    \* line 205
    generated_image,             \* line 206: the tf.Variable's value
    optimizer_iterations,        \* Adam's step counter (optimizer.iterations)
    generated_images,            \* line 208
    costs,                       \* line 209
    i,                           \* position of `for i in range(Iterations)`
    J_content, J_style, J_total, \* locals of the loop body
    plt_image,                   \* what display_image last gave to plt.imshow
    at_checkpoint,               \* history: generated_image's value when each
                                 \* checkpoint branch (line 225) was entered
    pc,                          \* position in train
    err,                         \* the exception that left train, if any
    result                       \* what train returned, if it returned

vars == <<Iterations, alpha, beta, lr, content_image_preprocessed,
          style_image_preprocessed, generated_image, optimizer_iterations,
          generated_images, costs, i, J_content, J_style, J_total, plt_image,
          at_checkpoint, pc, err, result>>

-----------------------------------------------------------------------------
\* Bounds of the model

\* Iteration counts reach MaxCheckpoints * CheckpointInterval + 1.
MaxCheckpoints == 1

\* Largest finite magnitude of a float (thousandths).
MaxFloat == 1024000

\* Input scale of one unit of activation in the network stand-in.
FeatureUnit == 64000

\* Costs are counted in units of 1 / CostScale.
CostScale == 100

-----------------------------------------------------------------------------
\* Floats

NaN == MaxFloat + 1

IsFinite(v) == v # NaN

\* Rounding of an exact result to a float: out of range is non-finite.
Float(v) == IF v > MaxFloat \/ v < -MaxFloat THEN NaN ELSE v

FAdd(a, b) == IF a = NaN \/ b = NaN THEN NaN ELSE Float(a + b)

Channels == 1..3

TensorFinite(t) == \A c \in Channels : IsFinite(t.px[c])

\* No definite cost before the first forward pass.
None == 0 - 1

-----------------------------------------------------------------------------
\* Program constants

\* line 225: i % 200
CheckpointInterval == 200

\* line 32: cv2.resize(style_image, (650, 437)) is (width, height), and line 35
\* writes the result over CONFIG.STYLE_IMAGE, which train then loads.
StyleShape == <<437, 650>>

\* lines 71-73 (deprocess_image) and keras' preprocess_input: BGR means.
Means == <<103939, 116779, 123680>>

\* lines 113-118
style_layers == <<"block1_conv1", "block2_conv1", "block3_conv1",
                  "block4_conv1", "block5_conv1">>

\* line 118: 0.5, 0.6, 0.8, 0.8, 0.5 in tenths
style_coeff == <<5, 6, 8, 8, 5>>

\* line 104
content_layer == "block5_conv2"

-----------------------------------------------------------------------------
\* Inputs

\* line 212: range(Iterations).  Counts around each multiple of the interval.
IterationChoices ==
    {n \in 0..(MaxCheckpoints * CheckpointInterval + 1) :
        n <= 2 \/ (n % CheckpointInterval) \in {0, 1, CheckpointInterval - 1}}

\* Content image files: same shape as the style image, its transpose, the
\* size CONFIG names (line 20-21), and one of equal area but other sides.
ContentShapes == {<<437, 650>>, <<650, 437>>, <<398, 430>>, <<874, 325>>}

\* RGB colours (0..255) of the content and the style file.
ContentColours == {<<255, 255, 255>>, <<128, 128, 128>>}
StyleColours == {<<255, 255, 255>>}

AlphaChoices == {10}
BetaChoices == {40}
LrChoices == {5000, MaxFloat}

-----------------------------------------------------------------------------
\* load_and_process_image, lines 37-52: preprocess_input turns RGB into BGR
\* and subtracts the channel means.
load_and_process_image(shape, rgb) ==
    [shape |-> shape,
     px |-> <<rgb[3] * 1000 - Means[1],
              rgb[2] * 1000 - Means[2],
              rgb[1] * 1000 - Means[3]>>]

\* line 206: tf.Variable(content_image_preprocessed, dtype = tf.float32)
\* holds a copy of the array it is given.
Variable_noise(t) ==
    [t EXCEPT !.px = [c \in Channels |-> FAdd((t.px[c] * 4) \div 10, 60000)]]
Variable(t) == t

-----------------------------------------------------------------------------
\* The frozen network (lines 12-16, 106-110, 120-123)

\* Pooling stages before a layer: blockN_convM follows N - 1 poolings.
PoolDepth(layer) ==
    CASE layer = "block1_conv1" -> 0
      [] layer = "block2_conv1" -> 1
      [] layer = "block3_conv1" -> 2
      [] layer = "block4_conv1" -> 3
      [] layer = "block5_conv1" -> 4
      [] layer = "block5_conv2" -> 4

RECURSIVE Halve(_, _)
Halve(n, k) == IF k = 0 THEN n ELSE Halve(n \div 2, k - 1)

\* One activation value: ReLU, non-finite in gives non-finite out.
Act(v) == IF v = NaN THEN NaN ELSE IF v <= 0 THEN 0 ELSE v \div FeatureUnit

\* Model(inputs = model.input, outputs = model.get_layer(layer).output)(image)
LayerModel(layer, image) ==
    [shape |-> <<Halve(image.shape[1], PoolDepth(layer)),
                 Halve(image.shape[2], PoolDepth(layer))>>,
     a |-> [c \in Channels |-> Act(image.px[c])]]

content_model(image) == LayerModel(content_layer, image)

-----------------------------------------------------------------------------
\* Loss module

Sq(x) == x * x

AnyNaN(f) == \E c \in DOMAIN f : f[c] = NaN

\* content_cost, lines 125-140: 0.05 * reduce_mean(square(a_C - a_G)).
\* The mean over a uniform activation is the mean over its channels.
content_cost(c_img, g_img) ==
    LET a_C == content_model(c_img).a
        a_G == content_model(g_img).a
    IN  IF AnyNaN(a_C) \/ AnyNaN(a_G) THEN NaN
        ELSE (CostScale * (Sq(a_C[1] - a_G[1]) + Sq(a_C[2] - a_G[2])
                           + Sq(a_C[3] - a_G[3])))
             \div (20 * Cardinality(Channels))

\* gram_matrix, lines 142-155: A * transpose(A) for A with one row per channel
\* and n equal columns is n * (a a^T); the factor n is kept apart in field n.
gram_matrix(A) ==
    [n |-> A.n,
     g |-> [c \in Channels |-> [d \in Channels |->
              IF A.a[c] = NaN \/ A.a[d] = NaN THEN NaN ELSE A.a[c] * A.a[d]]]]

\* tf.reshape(a, shape = [n_H * n_W, n_C]) (lines 175-176) raises unless a
\* holds exactly n_H * n_W * n_C values; transposed, it has n_H * n_W columns.
ReshapeRaises(a, n_H, n_W) == a.shape[1] * a.shape[2] # n_H * n_W

Unrolled(a, n_H, n_W) == [n |-> n_H * n_W, a |-> a.a]

\* line 181: 1/4 * 1/n_C^2 * 1/(n_H*n_W)^2 * reduce_mean(square(GMS - GMG)).
\* Both Gram matrices carry the same factor n = n_H * n_W, so the square of
\* their difference carries n^2, which the normalisation divides out.
current_style_cost(GMS, GMG) ==
    LET n_C == Cardinality(Channels)
        nan == \E c, d \in Channels : GMS.g[c][d] = NaN \/ GMG.g[c][d] = NaN
        RowSum(c) == Sq(GMS.g[c][1] - GMG.g[c][1]) + Sq(GMS.g[c][2] - GMG.g[c][2])
                     + Sq(GMS.g[c][3] - GMG.g[c][3])
    IN  IF nan THEN NaN
        ELSE (CostScale * (RowSum(1) + RowSum(2) + RowSum(3)))
             \div (4 * n_C * n_C * n_C * n_C)

\* lines 172-176 of layer number k: whether tf.reshape raises
LayerRaises(k, s_img, g_img) ==
    ReshapeRaises(LayerModel(style_layers[k], s_img),
                  LayerModel(style_layers[k], g_img).shape[1],
                  LayerModel(style_layers[k], g_img).shape[2])

\* lines 172-183 of layer number k: style_coeff[i] * current_style_cost
LayerCost(k, s_img, g_img) ==
    (style_coeff[k]
     * current_style_cost(
          gram_matrix(Unrolled(LayerModel(style_layers[k], s_img),
                               LayerModel(style_layers[k], g_img).shape[1],
                               LayerModel(style_layers[k], g_img).shape[2])),
          gram_matrix(Unrolled(LayerModel(style_layers[k], g_img),
                               LayerModel(style_layers[k], g_img).shape[1],
                               LayerModel(style_layers[k], g_img).shape[2]))))
    \div 10

\* line 183: total_style_cost += ..., over the layers from number k on
RECURSIVE StyleCostFrom(_, _, _)
StyleCostFrom(k, s_img, g_img) ==
    IF k > Len(style_layers) THEN 0
    ELSE LayerCost(k, s_img, g_img) + StyleCostFrom(k + 1, s_img, g_img)

\* style_cost, lines 157-185.  The result records whether a reshape raised,
\* and the cost otherwise; a non-finite value in either image makes every
\* layer's cost, and so the sum, non-finite.
style_cost(s_img, g_img) ==
    IF \E k \in DOMAIN style_layers : LayerRaises(k, s_img, g_img)
    THEN [raised |-> TRUE, cost |-> None]
    ELSE IF AnyNaN(s_img.px) \/ AnyNaN(g_img.px)
    THEN [raised |-> FALSE, cost |-> NaN]
    ELSE [raised |-> FALSE, cost |-> StyleCostFrom(1, s_img, g_img)]

\* line 218
TotalCost_swapped(a, b, Jc, Js) ==
    IF Jc = NaN \/ Js = NaN THEN NaN ELSE a * Js + b * Jc
TotalCost(a, b, Jc, Js) ==
    IF Jc = NaN \/ Js = NaN THEN NaN ELSE a * Jc + b * Js

\* lines 214-218 on tensor g, given that no reshape raises
Forward(a, b, c_img, s_img, g) ==
    LET Jc == content_cost(c_img, g)
        Js == style_cost(s_img, g).cost
    IN  [J_content |-> Jc, J_style |-> Js, J_total |-> TotalCost(a, b, Jc, Js)]

-----------------------------------------------------------------------------
\* Gradient and optimizer (lines 210, 220-221)

Min(x, y) == IF x < y THEN x ELSE y
Max(x, y) == IF x > y THEN x ELSE y
Sign(x) == IF x > 0 THEN 1 ELSE IF x < 0 THEN -1 ELSE 0

\* tape.gradient(J_total, generated_image): the sign of the derivative in each
\* channel, by central difference over one unit of activation.
Gradient(a, b, c_img, s_img, g) ==
    [c \in Channels |->
        IF ~TensorFinite(g) THEN NaN
        ELSE LET up == [g EXCEPT !.px[c] = Min(MaxFloat, @ + FeatureUnit)]
                 dn == [g EXCEPT !.px[c] = Max(-MaxFloat, @ - FeatureUnit)]
             IN  Sign(Forward(a, b, c_img, s_img, up).J_total
                      - Forward(a, b, c_img, s_img, dn).J_total)]

\* optimizer.apply_gradients([(grads, generated_image)]): one step of size
\* learning_rate against the gradient's sign.
apply_gradients(rate, grads, g) ==
    [g EXCEPT !.px = [c \in Channels |->
        IF grads[c] = NaN THEN NaN ELSE FAdd(g.px[c], -(rate * grads[c]))]]

-----------------------------------------------------------------------------
\* Reporting sink (lines 60-97)

\* astype('uint8') of a non-finite float is not defined; the builds give one
\* of these.
NaNCasts == {0, 255}

\* np.clip(x, 0, 255).astype('uint8') of one value
ClipCast(v, nancast) ==
    IF v = NaN THEN nancast
    ELSE IF v < 0 THEN 0
    ELSE IF v > 255000 THEN 255
    ELSE v \div 1000

\* deprocess_image, lines 60-77.  The three += act on the argument array
\* itself (field arg); the reversal and the clip make the returned array
\* (field img, RGB).
deprocess_image(x, nancast) ==
    LET added == [x EXCEPT !.px = [c \in Channels |-> FAdd(x.px[c], Means[c])]]
    IN  [arg |-> added,
         img |-> [shape |-> x.shape,
                  px |-> <<ClipCast(added.px[3], nancast),
                           ClipCast(added.px[2], nancast),
                           ClipCast(added.px[1], nancast)>>]]

\* display_image, lines 79-97: np.squeeze gives a view of the argument, so
\* deprocess_image's += reach the argument array.
display_image(image, nancast) == deprocess_image(image, nancast)

\* lines 226-227: whether generated_image.numpy() gives the variable's own
\* buffer.  It gives a copy.
NumpyShares_alias == TRUE
NumpyShares == FALSE

\* line 225
IsCheckpoint_last(n) == (n + 1) % CheckpointInterval = 0
IsCheckpoint(n) == n % CheckpointInterval = 0

\* line 212: the index after n in range(Iterations)
RangeNext_skip(n) == n + 2
RangeNext(n) == n + 1

\* line 223: costs.append(J_total.numpy())
CostRecord(n, Jt, Js, Jc) == [J_total |-> Jt]

-----------------------------------------------------------------------------
\* train, lines 187-229

\* Where each step of train can be taken.
CanLoopEnter == pc = "for" /\ i < Iterations
CanReturn == pc = "for" /\ ~(i < Iterations)
CanForwardPass ==
    pc = "tape" /\ ~style_cost(style_image_preprocessed, generated_image).raised
CanForwardRaise ==
    pc = "tape" /\ style_cost(style_image_preprocessed, generated_image).raised
CanApplyGradients == pc = "apply"
CanAppendCost == pc = "append"
CanSkipCheckpoint == pc = "if" /\ ~IsCheckpoint(i)
CanDisplay == pc = "if" /\ IsCheckpoint(i)
CanSnapshot == pc = "snapshot"
CanPrint == pc = "print"

\* The state when the loop is reached: lines 204-210 have run.  Before the
\* call, line 101 displayed the style image.
Init ==
    /\ Iterations \in IterationChoices
    /\ alpha \in AlphaChoices
    /\ beta \in BetaChoices
    /\ lr \in LrChoices
    /\ \E shape \in ContentShapes, rgb \in ContentColours :
          content_image_preprocessed = load_and_process_image(shape, rgb)
    /\ \E rgb \in StyleColours :
          style_image_preprocessed = load_and_process_image(StyleShape, rgb)
    /\ generated_image = Variable(content_image_preprocessed)
    /\ optimizer_iterations = 0
    /\ generated_images = <<>>
    /\ costs = <<>>
    /\ i = 0
    /\ J_content = None
    /\ J_style = None
    /\ J_total = None
    /\ plt_image = display_image(style_image_preprocessed, 0).img
    /\ at_checkpoint = <<>>
    /\ pc = "for"
    /\ err = "none"
    /\ result = <<>>

\* line 212: the range yields the next index
LoopEnter ==
    /\ CanLoopEnter
    /\ pc' = "tape"
    /\ UNCHANGED <<Iterations, alpha, beta, lr, content_image_preprocessed,
                   style_image_preprocessed, generated_image,
                   optimizer_iterations, generated_images, costs, i, J_content,
                   J_style, J_total, plt_image, at_checkpoint, err, result>>

\* lines 212, 229: the range is exhausted and train returns
Return ==
    /\ CanReturn
    /\ result' = <<generated_images, costs>>
    /\ pc' = "done"
    /\ UNCHANGED <<Iterations, alpha, beta, lr, content_image_preprocessed,
                   style_image_preprocessed, generated_image,
                   optimizer_iterations, generated_images, costs, i, J_content,
                   J_style, J_total, plt_image, at_checkpoint, err>>

\* lines 214-218
ForwardPass ==
    /\ CanForwardPass
    /\ LET f == Forward(alpha, beta, content_image_preprocessed,
                        style_image_preprocessed, generated_image)
       IN  /\ J_content' = f.J_content
           /\ J_style' = f.J_style
           /\ J_total' = f.J_total
    /\ pc' = "apply"
    /\ UNCHANGED <<Iterations, alpha, beta, lr, content_image_preprocessed,
                   style_image_preprocessed, generated_image,
                   optimizer_iterations, generated_images, costs, i, plt_image,
                   at_checkpoint, err, result>>

\* lines 215-216: J_content is assigned, then tf.reshape raises in style_cost
\* and the exception leaves train.
ForwardRaises ==
    /\ CanForwardRaise
    /\ J_content' = content_cost(content_image_preprocessed, generated_image)
    /\ pc' = "error"
    /\ err' = "InvalidArgumentError"
    /\ UNCHANGED <<Iterations, alpha, beta, lr, content_image_preprocessed,
                   style_image_preprocessed, generated_image,
                   optimizer_iterations, generated_images, costs, i, J_style,
                   J_total, plt_image, at_checkpoint, result>>

\* lines 220-221.  Arrays that share the variable's buffer change with it.
ApplyGradients ==
    /\ CanApplyGradients
    /\ LET grads == Gradient(alpha, beta, content_image_preprocessed,
                             style_image_preprocessed, generated_image)
       IN  generated_image' = apply_gradients(lr, grads, generated_image)
    /\ optimizer_iterations' = optimizer_iterations + 1
    /\ generated_images' =
          IF NumpyShares
          THEN [j \in DOMAIN generated_images |-> generated_image']
          ELSE generated_images
    /\ pc' = "append"
    /\ UNCHANGED <<Iterations, alpha, beta, lr, content_image_preprocessed,
                   style_image_preprocessed, costs, i, J_content, J_style,
                   J_total, plt_image, at_checkpoint, err, result>>

\* line 223
AppendCost ==
    /\ CanAppendCost
    /\ costs' = Append(costs, CostRecord(i, J_total, J_style, J_content))
    /\ pc' = "if"
    /\ UNCHANGED <<Iterations, alpha, beta, lr, content_image_preprocessed,
                   style_image_preprocessed, generated_image,
                   optimizer_iterations, generated_images, i, J_content,
                   J_style, J_total, plt_image, at_checkpoint, err, result>>

\* line 225 false: on to the next index
SkipCheckpoint ==
    /\ CanSkipCheckpoint
    /\ i' = RangeNext(i)
    /\ pc' = "for"
    /\ UNCHANGED <<Iterations, alpha, beta, lr, content_image_preprocessed,
                   style_image_preprocessed, generated_image,
                   optimizer_iterations, generated_images, costs, J_content,
                   J_style, J_total, plt_image, at_checkpoint, err, result>>

\* lines 225-226: display_image(generated_image.numpy()) returns
Display ==
    /\ CanDisplay
    /\ \E nancast \in IF TensorFinite(generated_image) THEN {0} ELSE NaNCasts :
          LET d == display_image(generated_image, nancast)
          IN  /\ plt_image' = d.img
              /\ generated_image' =
                    IF NumpyShares THEN d.arg ELSE generated_image
              /\ generated_images' =
                    IF NumpyShares
                    THEN [j \in DOMAIN generated_images |-> d.arg]
                    ELSE generated_images
    /\ at_checkpoint' = Append(at_checkpoint, generated_image)
    /\ pc' = "snapshot"
    /\ UNCHANGED <<Iterations, alpha, beta, lr, content_image_preprocessed,
                   style_image_preprocessed, optimizer_iterations, costs, i,
                   J_content, J_style, J_total, err, result>>

\* lines 225-226: a call of matplotlib inside display_image raises; train
\* has no handler, so the exception leaves it.
DisplayRaises ==
    /\ CanDisplay
    /\ pc' = "error"
    /\ err' = "SinkError"
    /\ UNCHANGED <<Iterations, alpha, beta, lr, content_image_preprocessed,
                   style_image_preprocessed, generated_image,
                   optimizer_iterations, generated_images, costs, i, J_content,
                   J_style, J_total, plt_image, at_checkpoint, result>>

\* line 227: generated_images.append(generated_image.numpy())
Snapshot ==
    /\ CanSnapshot
    /\ generated_images' = Append(generated_images, generated_image)
    /\ pc' = "print"
    /\ UNCHANGED <<Iterations, alpha, beta, lr, content_image_preprocessed,
                   style_image_preprocessed, generated_image,
                   optimizer_iterations, costs, i, J_content, J_style, J_total,
                   plt_image, at_checkpoint, err, result>>

\* line 228, then on to the next index
PrintSummary ==
    /\ CanPrint
    /\ i' = RangeNext(i)
    /\ pc' = "for"
    /\ UNCHANGED <<Iterations, alpha, beta, lr, content_image_preprocessed,
                   style_image_preprocessed, generated_image,
                   optimizer_iterations, generated_images, costs, J_content,
                   J_style, J_total, plt_image, at_checkpoint, err, result>>

\* line 228: print raises (the output stream fails)
PrintRaises ==
    /\ CanPrint
    /\ pc' = "error"
    /\ err' = "SinkError"
    /\ UNCHANGED <<Iterations, alpha, beta, lr, content_image_preprocessed,
                   style_image_preprocessed, generated_image,
                   optimizer_iterations, generated_images, costs, i, J_content,
                   J_style, J_total, plt_image, at_checkpoint, result>>

Next ==
    \/ LoopEnter
    \/ Return
    \/ ForwardPass
    \/ ForwardRaises
    \/ ApplyGradients
    \/ AppendCost
    \/ SkipCheckpoint
    \/ Display
    \/ DisplayRaises
    \/ Snapshot
    \/ PrintSummary
    \/ PrintRaises

Spec == Init /\ [][Next]_vars

-----------------------------------------------------------------------------
\* Properties

Halted == pc \in {"done", "error"}

CeilDiv(n, k) == (n + k - 1) \div k

\* The style image's activation shape differs from the generated image's at
\* some style layer.
ShapeMismatch ==
    \E k \in DOMAIN style_layers :
        LayerModel(style_layers[k], style_image_preprocessed).shape
            # LayerModel(style_layers[k], generated_image).shape

\* C1: a run that completes returns a loss history of exactly Iterations
\* records, the record of iteration j at position j, and
\* ceil(Iterations / 200) snapshots, one per iteration j with j mod 200 = 0.
\* During the run the history holds one record per iteration so far and one
\* snapshot per checkpoint iteration so far.
C1_HistoryLengths ==
    /\ pc \in {"for", "tape", "apply", "append", "done"} => Len(costs) = i
    /\ pc \in {"if", "snapshot", "print"} => Len(costs) = i + 1
    /\ pc \in {"for", "tape", "apply", "append", "if", "snapshot", "done"}
          => Len(generated_images) = CeilDiv(i, CheckpointInterval)
    /\ CanPrint
          => /\ i % CheckpointInterval = 0
             /\ Len(generated_images) = i \div CheckpointInterval + 1
    /\ pc = "done"
          => /\ i = Iterations
             /\ result = <<generated_images, costs>>
             /\ Len(result[2]) = Iterations
             /\ Len(result[1]) = CeilDiv(Iterations, CheckpointInterval)

C1_Witness ==
    /\ pc = "done"
    /\ Iterations = CheckpointInterval + 1
    /\ Len(result[1]) = 2
    /\ Len(result[2]) = CheckpointInterval + 1

\* C2 as stated: with Iterations = 0 train performs no update, returns an
\* empty loss history and an empty snapshot sequence, and returns a generated
\* tensor identical to the preprocessed content image.
C2_Original ==
    (pc = "done" /\ Iterations = 0)
        => /\ optimizer_iterations = 0
           /\ result[2] = <<>>
           /\ \E j \in DOMAIN result[1] : result[1][j] = content_image_preprocessed

\* C2 amended: with Iterations = 0 train performs no update and returns an
\* empty snapshot sequence and an empty loss history, no tensor among them;
\* its generated tensor is then still identical to the preprocessed content
\* image.
C2_ZeroIterations ==
    (pc = "done" /\ Iterations = 0)
        => /\ optimizer_iterations = 0
           /\ result = << <<>>, <<>> >>
           /\ generated_image = content_image_preprocessed

C2_Witness == pc = "done" /\ Iterations = 0 /\ result = << <<>>, <<>> >>

\* C3 as stated: every run reaches Completed with the counter equal to
\* Iterations; no run ends any other way.
C3_Original ==
    Halted => (pc = "done" /\ i = Iterations)

\* Steps a run can still take: none once it has ended, else the iterations
\* left times the steps of one iteration, plus the steps left in this one.
StepsLeft ==
    IF Halted THEN 0
    ELSE 8 * (Iterations - i)
         + (CASE pc = "for" -> 8
              [] pc = "tape" -> 7
              [] pc = "apply" -> 6
              [] pc = "append" -> 5
              [] pc = "if" -> 4
              [] pc = "snapshot" -> 3
              [] pc = "print" -> 2)

\* Some step of train can be taken.
CanStep ==
    \/ CanLoopEnter \/ CanReturn \/ CanForwardPass \/ CanForwardRaise
    \/ CanApplyGradients \/ CanAppendCost \/ CanSkipCheckpoint \/ CanDisplay
    \/ CanSnapshot \/ CanPrint

\* C3 amended: the run starts with the generated tensor equal to the content
\* tensor and the counter at 0; a step changes the counter only by adding
\* exactly 1, at the end of an iteration below Iterations; the run ends, and
\* ends either Completed with the counter equal to Iterations (all updates
\* and records made) or left by an exception; after either, no step.
\* (It ends: every step lowers StepsLeft, which is never negative, and a run
\* that has not ended can take a step.)
C3_Linear ==
    /\ (pc = "for" /\ i = 0 /\ generated_image = content_image_preprocessed)
    /\ [][/\ i' # i => (i' = i + 1 /\ i < Iterations /\ pc \in {"if", "print"}
                        /\ pc' = "for")
          /\ ~Halted
          /\ StepsLeft' < StepsLeft]_vars
    /\ [](/\ StepsLeft >= 0
          /\ Halted \/ CanStep
          /\ pc = "done" => /\ i = Iterations
                            /\ optimizer_iterations = Iterations
                            /\ Len(costs) = Iterations)

C3_Witness ==
    /\ pc = "done"
    /\ i = Iterations
    /\ Iterations = CheckpointInterval + 1
    /\ optimizer_iterations = Iterations

\* C4: the generated tensor changes only in the optimizer update step, once
\* per iteration; the loss evaluation, the history append, the display, the
\* snapshot and the print leave it unchanged; the preprocessed content and
\* style tensors never change.
C4_OnlyUpdateMutates ==
    /\ [][/\ generated_image' # generated_image
               => (pc = "apply" /\ pc' = "append")
          /\ pc = "apply" => optimizer_iterations' = optimizer_iterations + 1
          /\ pc # "apply" => optimizer_iterations' = optimizer_iterations
          /\ content_image_preprocessed' = content_image_preprocessed
          /\ style_image_preprocessed' = style_image_preprocessed]_vars
    /\ [](optimizer_iterations
             = IF pc \in {"append", "if", "snapshot", "print"} THEN i + 1
               ELSE IF pc \in {"for", "tape", "apply", "done"} THEN i
               ELSE optimizer_iterations)

\* The display of a checkpoint has returned, for a tensor that the updates
\* have moved away from the content image.
C4_Witness ==
    /\ pc = "snapshot"
    /\ i = CheckpointInterval
    /\ generated_image # content_image_preprocessed
    /\ plt_image = display_image(generated_image, 0).img
    /\ plt_image.px # display_image(content_image_preprocessed, 0).img.px

C6_HaltsOnDivergence ==
    ~TensorFinite(generated_image) => pc \notin {"for", "tape", "done"}

\* C7: a failure of the reporting sink does not abort the run.
C7_SinkFailureTolerated ==
    pc = "error" => err # "SinkError"

\* C8: when the style image's activation shape differs from the generated
\* image's at some style layer, the run never proceeds: no update, no record
\* and no snapshot is ever made.
C8_MismatchAborts ==
    ShapeMismatch
        => /\ optimizer_iterations = 0
           /\ costs = <<>>
           /\ generated_images = <<>>

\* C9: every snapshot equals the generated tensor as it was at its
\* checkpoint: snapshot number j is the tensor's value when the checkpoint of
\* iteration (j - 1) * 200 was reached, and stays so whatever updates,
\* displays and snapshots follow.
C9_SnapshotsKept ==
    /\ Len(generated_images) <= Len(at_checkpoint)
    /\ \A j \in DOMAIN generated_images : generated_images[j] = at_checkpoint[j]
    /\ pc = "snapshot" => Len(at_checkpoint) = i \div CheckpointInterval + 1
    /\ pc \in {"print", "for", "done"}
          => Len(generated_images) = Len(at_checkpoint)

C9_Witness ==
    /\ pc = "done"
    /\ Len(generated_images) = 2
    /\ generated_images[1] # generated_images[2]
    /\ generated_images[1] # generated_image
    /\ generated_images[1] = at_checkpoint[1]

\* C10: the loss recorded for iteration i is evaluated on the generated
\* tensor after exactly i updates (record 0 on the unmodified content image),
\* the snapshot of checkpoint iteration i is the tensor after exactly i + 1
\* updates, and iteration i + 1 starts from the tensor after the update of
\* iteration i.
C10_Ordering ==
    /\ pc = "tape" => optimizer_iterations = i
    /\ pc = "apply"
          => /\ optimizer_iterations = i
             /\ J_total = Forward(alpha, beta, content_image_preprocessed,
                                  style_image_preprocessed, generated_image).J_total
    /\ pc = "if"
          => /\ optimizer_iterations = i + 1
             /\ costs[i + 1].J_total = J_total
    /\ Len(costs) = 1
          => costs[1].J_total
                = Forward(alpha, beta, content_image_preprocessed,
                          style_image_preprocessed,
                          content_image_preprocessed).J_total
    /\ pc = "print"
          => /\ optimizer_iterations = i + 1
             /\ generated_images[Len(generated_images)] = generated_image

C10_Witness ==
    /\ pc = "print"
    /\ i = CheckpointInterval
    /\ optimizer_iterations = CheckpointInterval + 1
    /\ generated_images[2] = generated_image
    /\ generated_image # content_image_preprocessed
    /\ costs[i + 1].J_total # costs[1].J_total

====
